---- MODULE Spec2Model ----
(***************************************************************************)
(* Model of Stocks_Risk_Clustering_SP500.py: the per-symbol beta / R^2     *)
(* loop of analyze_stocks, the assembly of results_df, the BIC order       *)
(* selection of determine_optimal_clusters, the mixture fit, risk_level    *)
(* and the hover-text cluster probability.                                 *)
(*                                                                         *)
(* Number representation (fixed point, integers only):                     *)
(*   prices            whole currency units                                *)
(*   returns           units of 1/100 (pct_change)                         *)
(*   beta              units of 1/10000 (so 0.4999 is 4999)                *)
(*   R-squared, probs  units of 1/1000                                     *)
(* NaN, PosInf and NegInf are sentinels outside every finite range; every  *)
(* comparison with NaN is false, as in IEEE-754.                           *)
(***************************************************************************)
EXTENDS Integers, Sequences, FiniteSets, TLC

VARIABLES
    pc,                  \* position of the running call
    err,                 \* the exception that ended the run, "none" otherwise
    stock_symbols,       \* the 'Symbol' column of the CSV (line 82)
    pos,                 \* number of symbols the for-loop has consumed
    keys,                \* insertion order of the keys of the dict betas
    betas,               \* dict symbol -> rounded beta
    r_squared_values,    \* dict symbol -> rounded R-squared
    latest_close_values, \* dict symbol -> rounded last close
    valid_stocks_count,  \* line 93 / 113
    results_df,          \* rows [idx, Symbol, Beta, RSquared, LatestClose]
    n_features,          \* rows of the matrix `features` (line 132/135), -1 before
    optimal_clusters,    \* line 138, 0 before
    fits,                \* number of mixture models fitted so far
    gmm,                 \* outcome of the final fit (line 141/142), 0 before
    cluster_labels,      \* column 'Cluster', by row position
    risk_levels,         \* column 'Risk Level', by row position
    exported,            \* SP500_results.csv written (line 149)
    cluster_prob,        \* symbol -> 'Cluster Prob' of the hover text
    bics,                \* the list bics of determine_optimal_clusters
    arg_beta,            \* argument of a direct call of risk_level
    ret_risk             \* its return value

vars == <<pc, err, stock_symbols, pos, keys, betas, r_squared_values,
          latest_close_values, valid_stocks_count, results_df, n_features,
          optimal_clusters, fits, gmm, cluster_labels, risk_levels, exported,
          cluster_prob, bics, arg_beta, ret_risk>>

----------------------------------------------------------------------------
(* Bounds of the model *)

\* longest symbol list read from the CSV
MaxLen == 13
\* BIC scores are drawn from 0..MaxScore
MaxScore == 1
\* largest feature matrix handed to a direct call of determine_optimal_clusters
MaxRows == 13
\* direct calls of risk_level probe every threshold +- ProbeSpan/10000
ProbeSpan == 12
\* number of distinct outcomes of the final mixture fit
FitOutcomes == 2

----------------------------------------------------------------------------
(* Floating point sentinels and arithmetic *)

NaN == -1000000000
PosInf == 1000000000
NegInf == -1000000001

\* np.isfinite dropped from line 108: every beta passes
isfinite_mut(x) == TRUE

isfinite(x) == x \notin {NaN, PosInf, NegInf}

isnan(x) == x = NaN

\* Python's a < b on floats: false as soon as one side is NaN
Lt(a, b) == a # NaN /\ b # NaN /\ a < b

\* round(1000 * a / b) for a >= 0, b > 0, ties to the even one; the three
\* decimals are produced one long-division digit at a time
RECURSIVE Digits(_, _, _, _)
Digits(q, r, b, left) ==
    IF left = 0
    THEN IF 2 * r > b \/ (2 * r = b /\ q % 2 = 1) THEN q + 1 ELSE q
    ELSE Digits(10 * q + (10 * r) \div b, (10 * r) % b, b, left - 1)

RoundHalfEven3(a, b) == Digits(a \div b, a % b, b, 3)

\* float division num/den followed by round(., 3), result in units of 1/unit
\* (unit is a multiple of 1000); x/0 is nan for x = 0 and +-inf otherwise
DivRound3(num, den, unit) ==
    LET n == IF den < 0 THEN 0 - num ELSE num
        d == IF den < 0 THEN 0 - den ELSE den
    IN IF den = 0
       THEN IF num = 0 THEN NaN ELSE IF num > 0 THEN PosInf ELSE NegInf
       ELSE IF n < 0
            THEN (0 - RoundHalfEven3(0 - n, d)) * (unit \div 1000)
            ELSE RoundHalfEven3(n, d) * (unit \div 1000)

RECURSIVE SumOver(_, _)
SumOver(S, f) ==
    IF S = {} THEN 0
    ELSE LET d == CHOOSE e \in S : TRUE
         IN f[d] + SumOver(S \ {d}, f)

----------------------------------------------------------------------------
(* The market data served by Yahoo Finance *)

\* trading days of the window [start_date, end_date]
Dates == 1..5

\* close of the index: flat on the first three days
IndexClose == <<100, 100, 100, 110, 99>>

\* a symbol is a pair <<kind, n>>: the ordinary listings <<"listed", 1>>,
\* <<"listed", 2>>, ... and five special cases
Delisted == <<"delisted", 0>>
OneDay == <<"one_day", 0>>
NewListing == <<"new_listing", 0>>
FlatWindow == <<"flat_window", 0>>
ConstantPrice == <<"constant_price", 0>>

Special == {Delisted, OneDay, NewListing, FlatWindow, ConstantPrice}

Listed(n) == <<"listed", n>>

Ordinary == {Listed(n) : n \in 1..MaxLen}

Universe == Ordinary \cup Special

\* leverage of an ordinary listing on the index move, not monotone in n
Leverage(sym) == (sym[2] * 7) % 17

\* Delisted has no rows, OneDay a single close (no return), NewListing two
\* closes (one return), FlatWindow trades only while the index is flat
StockDates(sym) ==
    CASE sym = Delisted -> {}
      [] sym = OneDay -> {5}
      [] sym = NewListing -> {4, 5}
      [] sym = FlatWindow -> {1, 2, 3}
      [] OTHER -> Dates

\* ConstantPrice closes at the same price every day
StockClose(sym, d) ==
    CASE sym = ConstantPrice -> 50
      [] sym \in {OneDay, NewListing, FlatWindow} -> 40 + 3 * d
      [] OTHER ->
           CASE d = 2 -> 100 + (sym[2] % 3)
             [] d = 4 -> 100 + 2 * Leverage(sym)
             [] d = 5 -> 100 - Leverage(sym) + (sym[2] % 2)
             [] OTHER -> 100

\* yf.download(symbol)['Close']: a series date -> close, possibly empty
fetch_data(sym) == [d \in StockDates(sym) |-> StockClose(sym, d)]

index_data == [d \in Dates |-> IndexClose[d]]

----------------------------------------------------------------------------
(* Returns, alignment and the two metrics *)

\* series.pct_change().dropna(): the first row has no return and is dropped
pct_change(series) ==
    LET dom == DOMAIN series
        first == CHOOSE d \in dom : \A e \in dom : d <= e
        prev(d) == CHOOSE e \in dom : e < d /\ \A g \in dom : g < d => g <= e
    IN IF dom = {} THEN series
       ELSE [d \in dom \ {first} |->
               ((series[d] - series[prev(d)]) * 100) \div series[prev(d)]]

\* inner join on the date index
align_data(stock_returns, market_returns) ==
    [d \in DOMAIN stock_returns \cap DOMAIN market_returns |->
        [Close_stock |-> stock_returns[d], Close_index |-> market_returns[d]]]

aligned(sym) == align_data(pct_change(fetch_data(sym)), pct_change(index_data))

\* n(n-1) times the sample covariance of columns a and b of an aligned frame
CoMoment(frame, a, b) ==
    LET dom == DOMAIN frame
        n == Cardinality(dom)
    IN n * SumOver(dom, [d \in dom |-> frame[d][a] * frame[d][b]])
       - SumOver(dom, [d \in dom |-> frame[d][a]])
         * SumOver(dom, [d \in dom |-> frame[d][b]])

\* beta = cov[0,1] / cov[1,1], then round(beta, 3) of line 109 (a nan stays nan)
calculate_beta(frame) ==
    IF Cardinality(DOMAIN frame) < 2 THEN NaN
    ELSE DivRound3(CoMoment(frame, "Close_stock", "Close_index"),
                   CoMoment(frame, "Close_index", "Close_index"), 10000)

\* corrcoef[0,1] ** 2, then round(., 3) of line 110
calculate_r_squared(frame) ==
    IF Cardinality(DOMAIN frame) < 2 THEN NaN
    ELSE LET c == CoMoment(frame, "Close_stock", "Close_index")
         IN DivRound3(c * c,
                      CoMoment(frame, "Close_stock", "Close_stock")
                      * CoMoment(frame, "Close_index", "Close_index"), 1000)

latest_close(sym) ==
    LET s == fetch_data(sym)
    IN s[CHOOSE d \in DOMAIN s : \A e \in DOMAIN s : e <= d]

----------------------------------------------------------------------------
(* risk_level *)

\* the first threshold compared with <= instead of <
risk_level_mut(beta) ==
    IF beta <= 5000 THEN "Very Low Risk"
    ELSE IF Lt(beta, 10000) THEN "Low Risk"
    ELSE IF Lt(beta, 15000) THEN "Moderate Risk"
    ELSE IF Lt(beta, 20000) THEN "High Risk"
    ELSE "Very High Risk"

risk_level(beta) ==
    IF Lt(beta, 5000) THEN "Very Low Risk"
    ELSE IF Lt(beta, 10000) THEN "Low Risk"
    ELSE IF Lt(beta, 15000) THEN "Moderate Risk"
    ELSE IF Lt(beta, 20000) THEN "High Risk"
    ELSE "Very High Risk"

----------------------------------------------------------------------------
(* The dicts of analyze_stocks and the table results_df *)

EmptyDict == [s \in {} |-> 0]

\* d[k] = v
DictPut(d, k, v) == [x \in DOMAIN d \cup {k} |-> IF x = k THEN v ELSE d[x]]

\* a dict keeps the position of a key's first insertion
KeyOrder(ks, k) ==
    IF \E j \in 1..Len(ks) : ks[j] = k THEN ks ELSE Append(ks, k)

\* pd.DataFrame({...}) of lines 119-125: one row per key, default RangeIndex
DataFrame(ks, b, r, c) ==
    [j \in 1..Len(ks) |->
        [idx |-> j - 1, Symbol |-> ks[j], Beta |-> b[ks[j]],
         RSquared |-> r[ks[j]], LatestClose |-> c[ks[j]]]]

\* the order of sort_values: nan goes last
BetaBefore(a, b) == (~isnan(a.Beta) /\ isnan(b.Beta)) \/ Lt(a.Beta, b.Beta)

RECURSIVE InsertRow(_, _)
InsertRow(sorted, row) ==
    IF sorted = <<>> THEN <<row>>
    ELSE IF BetaBefore(row, sorted[Len(sorted)])
         THEN Append(InsertRow(SubSeq(sorted, 1, Len(sorted) - 1), row),
                     sorted[Len(sorted)])
         ELSE Append(sorted, row)

\* .sort_values(by='Beta'): rows move, each keeps its index label
RECURSIVE sort_values(_)
sort_values(df) ==
    IF df = <<>> THEN <<>>
    ELSE InsertRow(sort_values(SubSeq(df, 1, Len(df) - 1)), df[Len(df)])

RowHasNaN(row) ==
    isnan(row.Beta) \/ isnan(row.RSquared) \/ isnan(row.LatestClose)

\* the dropna of line 128 left out
dropna_mut(df) == df

\* results_df.dropna(inplace=True)
dropna(df) == SelectSeq(df, LAMBDA row : ~RowHasNaN(row))

----------------------------------------------------------------------------
(* determine_optimal_clusters *)

\* range(3, 13)
n_clusters_stop == 13

\* range(1, 13): candidates start at a single component
n_clusters_first_mut == n_clusters_stop - 12

n_clusters_first == 3

n_clusters_range == n_clusters_first..(n_clusters_stop - 1)

\* GaussianMixture(n_components=k).fit(data) raises ValueError on a matrix
\* of fewer than 2 rows or fewer than k rows
FitRaises(n, k) == n < 2 \/ n < k

\* a minimum that keeps the last element with the least score
RECURSIVE min_by_score_mut(_)
min_by_score_mut(bs) ==
    IF Len(bs) = 1 THEN bs[1]
    ELSE LET best == min_by_score_mut(SubSeq(bs, 1, Len(bs) - 1))
         IN IF bs[Len(bs)][2] <= best[2] THEN bs[Len(bs)] ELSE best

\* min(bics, key=lambda x: x[1]): the first element with the least score
RECURSIVE min_by_score(_)
min_by_score(bs) ==
    IF Len(bs) = 1 THEN bs[1]
    ELSE LET best == min_by_score(SubSeq(bs, 1, Len(bs) - 1))
         IN IF bs[Len(bs)][2] < best[2] THEN bs[Len(bs)] ELSE best

\* the for-loop of lines 38-42 on a matrix of n rows, score[k] the BIC of
\* the k-component fit; stops where a fit raises
RECURSIVE FitCandidates(_, _, _)
FitCandidates(n, score, acc) ==
    LET k == n_clusters_first + Len(acc)
    IN IF k >= n_clusters_stop THEN [raised |-> FALSE, bics |-> acc]
       ELSE IF FitRaises(n, k) THEN [raised |-> TRUE, bics |-> acc]
       ELSE FitCandidates(n, score, Append(acc, <<k, score[k]>>))

determine_optimal_clusters(n, score) ==
    LET r == FitCandidates(n, score, <<>>)
    IN [raised |-> r.raised,
        fitted |-> Len(r.bics),
        k |-> IF r.raised \/ r.bics = <<>> THEN 0 ELSE min_by_score(r.bics)[1]]

\* a BIC curve with its minimum at kmin
ScoreCurve(kmin) ==
    [k \in n_clusters_range |-> IF k < kmin THEN kmin - k ELSE k - kmin]

----------------------------------------------------------------------------
(* The fitted mixture: labels and membership probabilities *)

\* gmm.fit_predict(features)[i - 1] for outcome g of the fit with k components
fit_predict(g, i, k) == (i + g) % k

\* gmm.predict_proba(features)[i - 1, c]: the label is the argmax of the row,
\* each row sums to 1000 and no two rows are alike
predict_proba(g, i, c, k) ==
    IF c = fit_predict(g, i, k) THEN 1000 - (k - 1) * i ELSE i

\* cluster_probs[cluster_df.index, cluster] for one row of cluster_df: the
\* row of cluster_probs is picked by the row's index label
hover_prob(g, row, c, k) == predict_proba(g, row.idx + 1, c, k)

----------------------------------------------------------------------------
(* Inputs *)

Prefix(len) == [j \in 1..len |-> Listed(j)]

\* the CSV lists the first len ordinary symbols, one entry possibly replaced
\* by any symbol of the universe (a special case, or a repeated symbol)
SymbolLists ==
    {Prefix(len) : len \in 0..MaxLen}
    \cup {[Prefix(len) EXCEPT ![p] = s] :
             len \in 1..MaxLen, p \in 1..MaxLen, s \in Universe}

Thresholds == {5000, 10000, 15000, 20000}

BetaInputs ==
    {t + d : t \in Thresholds, d \in (0 - ProbeSpan)..ProbeSpan}
    \cup {-30000, 0, 50000}

----------------------------------------------------------------------------
(* analyze_stocks *)

Idle ==
    /\ err = "none"
    /\ pos = 0
    /\ keys = <<>>
    /\ betas = EmptyDict
    /\ r_squared_values = EmptyDict
    /\ latest_close_values = EmptyDict
    /\ valid_stocks_count = 0
    /\ results_df = <<>>
    /\ optimal_clusters = 0
    /\ fits = 0
    /\ gmm = 0
    /\ cluster_labels = <<>>
    /\ risk_levels = <<>>
    /\ exported = FALSE
    /\ cluster_prob = EmptyDict
    /\ bics = <<>>
    /\ ret_risk = "none"

\* lines 77-93: the symbol list is read, the index fetched (its fetch is
\* taken to have succeeded), the dicts empty
InitAnalyze ==
    /\ pc = "loop"
    /\ stock_symbols \in SymbolLists
    /\ n_features = -1
    /\ arg_beta = 0
    /\ Idle

\* a direct call risk_level(beta)
InitRiskCall ==
    /\ pc = "risk_call"
    /\ stock_symbols = <<>>
    /\ n_features = -1
    /\ arg_beta \in BetaInputs
    /\ Idle

Init == InitAnalyze \/ InitRiskCall

Abort(where) ==
    /\ pc' = "aborted"
    /\ err' = where

\* line 97: fetch_data raises (transport failure); nothing catches it
FetchRaises ==
    /\ pc = "loop"
    /\ pos < Len(stock_symbols)
    /\ Abort("fetch_data")
    /\ UNCHANGED <<stock_symbols, pos, keys, betas, r_squared_values,
                   latest_close_values, valid_stocks_count, results_df,
                   n_features, optimal_clusters, fits, gmm, cluster_labels,
                   risk_levels, exported, cluster_prob, bics, arg_beta,
                   ret_risk>>

\* lines 96-117: one iteration of the for-loop
ProcessSymbol ==
    /\ pc = "loop"
    /\ pos < Len(stock_symbols)
    /\ LET symbol == stock_symbols[pos + 1]
           stock_data == fetch_data(symbol)
           aligned_data == aligned(symbol)
           beta == calculate_beta(aligned_data)
       IN IF DOMAIN stock_data # {} /\ DOMAIN aligned_data # {}
             /\ isfinite(beta)
          THEN /\ keys' = KeyOrder(keys, symbol)
               /\ betas' = DictPut(betas, symbol, beta)
               /\ r_squared_values' =
                      DictPut(r_squared_values, symbol,
                              calculate_r_squared(aligned_data))
               /\ latest_close_values' =
                      DictPut(latest_close_values, symbol, latest_close(symbol))
               /\ valid_stocks_count' = valid_stocks_count + 1
          ELSE UNCHANGED <<keys, betas, r_squared_values, latest_close_values,
                           valid_stocks_count>>
    /\ pos' = pos + 1
    /\ UNCHANGED <<pc, err, stock_symbols, results_df, n_features,
                   optimal_clusters, fits, gmm, cluster_labels, risk_levels,
                   exported, cluster_prob, bics, arg_beta, ret_risk>>

\* lines 119-128: the table, sorted by beta, rows with a nan dropped
BuildResults ==
    /\ pc = "loop"
    /\ pos = Len(stock_symbols)
    /\ results_df' =
           dropna(sort_values(DataFrame(keys, betas, r_squared_values,
                                        latest_close_values)))
    /\ pc' = "features"
    /\ UNCHANGED <<err, stock_symbols, pos, keys, betas, r_squared_values,
                   latest_close_values, valid_stocks_count, n_features,
                   optimal_clusters, fits, gmm, cluster_labels, risk_levels,
                   exported, cluster_prob, bics, arg_beta, ret_risk>>

\* lines 132-135: StandardScaler.fit_transform raises ValueError on 0 rows
ScaleFeatures ==
    /\ pc = "features"
    /\ n_features' = Len(results_df)
    /\ IF Len(results_df) = 0
       THEN Abort("StandardScaler")
       ELSE pc' = "select" /\ err' = err
    /\ UNCHANGED <<stock_symbols, pos, keys, betas, r_squared_values,
                   latest_close_values, valid_stocks_count, results_df,
                   optimal_clusters, fits, gmm, cluster_labels, risk_levels,
                   exported, cluster_prob, bics, arg_beta, ret_risk>>

\* line 138: the call of determine_optimal_clusters
SelectOrder ==
    /\ pc = "select"
    /\ \E kmin \in n_clusters_range :
         LET r == determine_optimal_clusters(n_features, ScoreCurve(kmin))
         IN /\ fits' = fits + r.fitted
            /\ IF r.raised
               THEN Abort("determine_optimal_clusters")
                    /\ optimal_clusters' = optimal_clusters
               ELSE pc' = "fit" /\ err' = err /\ optimal_clusters' = r.k
    /\ UNCHANGED <<stock_symbols, pos, keys, betas, r_squared_values,
                   latest_close_values, valid_stocks_count, results_df,
                   n_features, gmm, cluster_labels, risk_levels, exported,
                   cluster_prob, bics, arg_beta, ret_risk>>

\* lines 141-143: the final fit and the column 'Cluster'
FitPredict ==
    /\ pc = "fit"
    /\ IF FitRaises(n_features, optimal_clusters)
       THEN Abort("fit_predict")
            /\ UNCHANGED <<fits, gmm, cluster_labels>>
       ELSE \E g \in 1..FitOutcomes :
              /\ gmm' = g
              /\ fits' = fits + 1
              /\ cluster_labels' =
                     [i \in 1..n_features |->
                         fit_predict(g, i, optimal_clusters)]
              /\ pc' = "risk"
              /\ err' = err
    /\ UNCHANGED <<stock_symbols, pos, keys, betas, r_squared_values,
                   latest_close_values, valid_stocks_count, results_df,
                   n_features, optimal_clusters, risk_levels, exported,
                   cluster_prob, bics, arg_beta, ret_risk>>

\* line 146: the column 'Risk Level'
ApplyRiskLevel ==
    /\ pc = "risk"
    /\ risk_levels' =
           [i \in 1..Len(results_df) |-> risk_level(results_df[i].Beta)]
    /\ pc' = "export"
    /\ UNCHANGED <<err, stock_symbols, pos, keys, betas, r_squared_values,
                   latest_close_values, valid_stocks_count, results_df,
                   n_features, optimal_clusters, fits, gmm, cluster_labels,
                   exported, cluster_prob, bics, arg_beta, ret_risk>>

\* line 149: to_csv
Export ==
    /\ pc = "export"
    /\ exported' = TRUE
    /\ pc' = "traces"
    /\ UNCHANGED <<err, stock_symbols, pos, keys, betas, r_squared_values,
                   latest_close_values, valid_stocks_count, results_df,
                   n_features, optimal_clusters, fits, gmm, cluster_labels,
                   risk_levels, cluster_prob, bics, arg_beta, ret_risk>>

\* lines 160-175: the hover text of every cluster's trace; indexing
\* cluster_probs with an index label >= its row count raises IndexError
BuildTraces ==
    /\ pc = "traces"
    /\ IF \E i \in 1..Len(results_df) : results_df[i].idx >= n_features
       THEN Abort("traces") /\ cluster_prob' = cluster_prob
       ELSE /\ cluster_prob' =
                   [s \in {results_df[i].Symbol : i \in 1..Len(results_df)} |->
                       LET i == CHOOSE j \in 1..Len(results_df) :
                                    results_df[j].Symbol = s
                       IN hover_prob(gmm, results_df[i], cluster_labels[i],
                                     optimal_clusters)]
            /\ pc' = "figure"
            /\ err' = err
    /\ UNCHANGED <<stock_symbols, pos, keys, betas, r_squared_values,
                   latest_close_values, valid_stocks_count, results_df,
                   n_features, optimal_clusters, fits, gmm, cluster_labels,
                   risk_levels, exported, bics, arg_beta, ret_risk>>

\* lines 180-201: the figure, the annotation and the final print
ShowFigure ==
    /\ pc = "figure"
    /\ pc' = "done"
    /\ UNCHANGED <<err, stock_symbols, pos, keys, betas, r_squared_values,
                   latest_close_values, valid_stocks_count, results_df,
                   n_features, optimal_clusters, fits, gmm, cluster_labels,
                   risk_levels, exported, cluster_prob, bics, arg_beta,
                   ret_risk>>

\* a direct call of risk_level returns
RiskLevelCall ==
    /\ pc = "risk_call"
    /\ ret_risk' = risk_level(arg_beta)
    /\ pc' = "risk_returned"
    /\ UNCHANGED <<err, stock_symbols, pos, keys, betas, r_squared_values,
                   latest_close_values, valid_stocks_count, results_df,
                   n_features, optimal_clusters, fits, gmm, cluster_labels,
                   risk_levels, exported, cluster_prob, bics, arg_beta>>

Next ==
    \/ FetchRaises
    \/ ProcessSymbol
    \/ BuildResults
    \/ ScaleFeatures
    \/ SelectOrder
    \/ FitPredict
    \/ ApplyRiskLevel
    \/ Export
    \/ BuildTraces
    \/ ShowFigure
    \/ RiskLevelCall

Spec == Init /\ [][Next]_vars

----------------------------------------------------------------------------
(* determine_optimal_clusters called on its own, one loop iteration a step *)

InitSelect ==
    /\ pc = "candidates"
    /\ stock_symbols = <<>>
    /\ n_features \in 0..MaxRows
    /\ arg_beta = 0
    /\ Idle

\* lines 38-42: fit the next candidate and record its BIC, unless fit raises
FitCandidate ==
    /\ pc = "candidates"
    /\ n_clusters_first + Len(bics) < n_clusters_stop
    /\ LET n_clusters == n_clusters_first + Len(bics)
       IN IF FitRaises(n_features, n_clusters)
          THEN Abort("determine_optimal_clusters") /\ UNCHANGED <<bics, fits>>
          ELSE \E bic \in 0..MaxScore :
                 /\ bics' = Append(bics, <<n_clusters, bic>>)
                 /\ fits' = fits + 1
                 /\ pc' = pc
                 /\ err' = err
    /\ UNCHANGED <<stock_symbols, pos, keys, betas, r_squared_values,
                   latest_close_values, valid_stocks_count, results_df,
                   n_features, optimal_clusters, gmm, cluster_labels,
                   risk_levels, exported, cluster_prob, arg_beta, ret_risk>>

\* lines 44-55: the loop is over, the order with the least BIC is returned
ReturnOptimal ==
    /\ pc = "candidates"
    /\ n_clusters_first + Len(bics) >= n_clusters_stop
    /\ optimal_clusters' = min_by_score(bics)[1]
    /\ pc' = "returned"
    /\ UNCHANGED <<err, stock_symbols, pos, keys, betas, r_squared_values,
                   latest_close_values, valid_stocks_count, results_df,
                   n_features, fits, gmm, cluster_labels, risk_levels,
                   exported, cluster_prob, bics, arg_beta, ret_risk>>

NextSelect == FitCandidate \/ ReturnOptimal

SpecSelect == InitSelect /\ [][NextSelect]_vars

----------------------------------------------------------------------------
(* Properties *)

Rows == 1..Len(results_df)

TableSymbols == {results_df[i].Symbol : i \in Rows}

Processed == {stock_symbols[j] : j \in 1..pos}

\* the table exists from the end of BuildResults on
TableBuilt == n_features >= 0 \/ pc = "features"

\* what the data of a symbol allows, read off the series themselves
HasData(sym) == StockDates(sym) # {}

AlignedPoints(sym) == Cardinality(DOMAIN aligned(sym))

MarketVaries(sym) ==
    \E d, e \in DOMAIN aligned(sym) :
        aligned(sym)[d].Close_index # aligned(sym)[e].Close_index

IsConstantSeries(sym) ==
    /\ StockDates(sym) = Dates
    /\ \A d, e \in Dates : StockClose(sym, d) = StockClose(sym, e)

\* per symbol of the universe: whether its data yields a defined beta, and
\* the beta the metric computes from it
DefinedBeta ==
    [s \in Universe |-> HasData(s) /\ AlignedPoints(s) >= 2 /\ MarketVaries(s)]

ComputedBeta == [s \in Universe |-> calculate_beta(aligned(s))]

\* C1: a symbol is in the dicts and in the result table only if its aligned
\* return pair had at least 2 points and its beta was finite (the benchmark
\* varied over the window), and then with its computed beta; a processed
\* symbol with no data, fewer than 2 aligned points or a non-finite beta is
\* in neither.
C1_OnlyValidSymbolsStored ==
    /\ \A s \in DOMAIN betas :
         /\ DefinedBeta[s]
         /\ isfinite(betas[s])
         /\ betas[s] = ComputedBeta[s]
    /\ \A s \in Processed :
         ~DefinedBeta[s] => s \notin DOMAIN betas /\ s \notin TableSymbols
    /\ TableSymbols \subseteq DOMAIN betas

C1_Witness ==
    /\ TableBuilt
    /\ \E s \in Processed : AlignedPoints(s) >= 2 /\ ~MarketVaries(s)
    /\ Len(results_df) >= 3

\* the tier of a finite beta as the half-open intervals state it
TierOf(beta) ==
    CASE beta < 5000 -> "Very Low Risk"
      [] 5000 <= beta /\ beta < 10000 -> "Low Risk"
      [] 10000 <= beta /\ beta < 15000 -> "Moderate Risk"
      [] 15000 <= beta /\ beta < 20000 -> "High Risk"
      [] beta >= 20000 -> "Very High Risk"

\* C2: risk_level maps every finite beta to the tier of its half-open
\* interval (0.4999 Very Low, 0.5 Low, 1.9999 High, 2.0 Very High), and in
\* analyze_stocks the column 'Risk Level' has one value per row of the result
\* table, computed from that row's finite beta.
C2_RiskLevelTotalHalfOpen ==
    /\ pc = "risk_returned" =>
         /\ isfinite(arg_beta)
         /\ ret_risk = TierOf(arg_beta)
         /\ arg_beta = 4999 => ret_risk = "Very Low Risk"
         /\ arg_beta = 5000 => ret_risk = "Low Risk"
         /\ arg_beta = 19999 => ret_risk = "High Risk"
         /\ arg_beta = 20000 => ret_risk = "Very High Risk"
    /\ risk_levels # <<>> =>
         /\ DOMAIN risk_levels = Rows
         /\ \A i \in Rows :
              /\ isfinite(results_df[i].Beta)
              /\ results_df[i].Symbol \in DOMAIN betas
              /\ risk_levels[i] = TierOf(results_df[i].Beta)

C2_Witness ==
    /\ pc = "done"
    /\ \E i \in Rows : results_df[i].Beta = 5000 /\ risk_levels[i] = "Low Risk"
    /\ \E i \in Rows : risk_levels[i] = "Very High Risk"

\* C3: the candidates are evaluated in the order 3, 4, ..., 12, and the order
\* returned has the least score of all candidates and is the smallest k
\* among those with the least score.
C3_MinimumScoreSmallestK ==
    /\ \A j \in 1..Len(bics) : bics[j][1] = 2 + j
    /\ pc = "returned" =>
         /\ Len(bics) = 10
         /\ \E j \in 1..Len(bics) :
              /\ bics[j][1] = optimal_clusters
              /\ \A h \in 1..Len(bics) : bics[j][2] <= bics[h][2]
              /\ \A h \in 1..Len(bics) :
                   bics[h][2] = bics[j][2] => optimal_clusters <= bics[h][1]

C3_Witness ==
    /\ pc = "returned"
    /\ optimal_clusters = 5
    /\ \E h \in 1..Len(bics) :
         bics[h][1] > optimal_clusters /\ bics[h][2] = bics[3][2]
    /\ bics[1][2] > bics[3][2]

\* C4: the result table has at most one record per symbol, is sorted by beta
\* ascending, and no record has a NaN beta, R-squared or latest price.
C4_TableUniqueSortedNoNaN ==
    TableBuilt =>
      /\ \A i, j \in Rows :
           results_df[i].Symbol = results_df[j].Symbol => i = j
      /\ \A i, j \in Rows :
           i < j => results_df[i].Beta <= results_df[j].Beta
      /\ \A i \in Rows :
           /\ ~isnan(results_df[i].Beta)
           /\ ~isnan(results_df[i].RSquared)
           /\ ~isnan(results_df[i].LatestClose)
      /\ \A s \in DOMAIN betas :
           (~isnan(r_squared_values[s])) => s \in TableSymbols

\* a table of 3 or more rows, reordered by the sort, after a NaN R-squared
\* row was dropped
C4_Witness ==
    /\ TableBuilt
    /\ Len(results_df) >= 3
    /\ \E s \in DOMAIN betas : isnan(r_squared_values[s])
    /\ \E i \in Rows : i > 1 /\ results_df[i].idx < results_df[i - 1].idx

\* the same table built from a list that names one of its symbols twice
C4_WitnessRepeated ==
    /\ TableBuilt
    /\ Len(results_df) >= 3
    /\ \E i, j \in 1..Len(stock_symbols) :
         i # j /\ stock_symbols[i] = stock_symbols[j]
         /\ stock_symbols[i] \in TableSymbols

\* C5: the cluster probability reported for a record of the result table is
\* probs[i, labels[i]] with i the row of that record in the feature matrix.
C5_ProbabilityOfOwnRow ==
    /\ ~(pc = "aborted" /\ err = "traces")
    /\ pc \in {"figure", "done"} =>
         \A i \in Rows :
            cluster_prob[results_df[i].Symbol] =
               predict_proba(gmm, i, cluster_labels[i], optimal_clusters)

\* C6: at the end of analyze_stocks the valid count printed equals the
\* number of records of the final result table.
C6_ValidCountIsTableSize ==
    pc = "done" => valid_stocks_count = Len(results_df)

\* C7: a fetch that raises for one symbol is caught and the symbol skipped:
\* it never ends the run, and the loop goes on to the remaining symbols.
C7_FetchFailureIsolated ==
    ~(pc = "aborted" /\ err = "fetch_data")

\* C8: a symbol whose price series is constant over the whole window is
\* never recorded in the per-symbol results and never counted as valid.
C8_ConstantSeriesExcluded ==
    /\ \A s \in Processed : IsConstantSeries(s) => s \notin DOMAIN betas
    /\ valid_stocks_count <=
          Cardinality({j \in 1..pos : ~IsConstantSeries(stock_symbols[j])})

\* C9 as claimed: with fewer than 3 records retained, it is the order
\* selector that fails, before any mixture is fitted, and the run stops there.
C9_SelectorFailsFast ==
    n_features \in 0..2 =>
      /\ fits = 0 /\ ~exported /\ cluster_labels = <<>>
      /\ pc \in {"select", "aborted"}
      /\ pc = "aborted" => err = "determine_optimal_clusters"

\* C9 amended: with fewer than 3 records retained the run fails fast before
\* any mixture is fitted and never reaches clustering, export or plotting;
\* the error is raised by the first fit of the order selector when 1 or 2
\* records are retained and by the feature standardisation when none is.
C9_FailsFastBeforeAnyFit ==
    n_features \in 0..2 =>
      /\ fits = 0 /\ ~exported /\ cluster_labels = <<>>
      /\ cluster_prob = EmptyDict /\ optimal_clusters = 0
      /\ pc \in {"select", "aborted"}
      /\ pc = "aborted" =>
           err = IF n_features = 0 THEN "StandardScaler"
                 ELSE "determine_optimal_clusters"

C9_Witness ==
    /\ n_features = 2
    /\ pc = "aborted"
    /\ err = "determine_optimal_clusters"
    /\ Len(stock_symbols) > 2

\* C10: with at least 3 records retained the order selector completes and
\* returns an order k in 3..12 with k <= n.
C10_SelectsWithThreeOrMore ==
    n_features >= 3 =>
      /\ ~(pc = "aborted" /\ err = "determine_optimal_clusters")
      /\ optimal_clusters # 0 =>
           optimal_clusters \in 3..12 /\ optimal_clusters <= n_features

====
